---- MODULE Spec2Model ----
(***************************************************************************)
(* A model of aidot's reconciliation engine: the pull command's            *)
(* scan / decide / apply protocol (commands/pull.rs), the conflict         *)
(* decision state machine and write_with_conflict (adapters/conflict.rs),  *)
(* the content normalizer (adapters/helpers.rs), the scan helpers          *)
(* (adapters/common.rs, adapters/traits.rs) and the Claude Code adapter    *)
(* (adapters/claude_code.rs).                                              *)
(*                                                                         *)
(* Texts are sequences of one-character strings.  Paths are sequences of   *)
(* path components.  JSON documents are texts made of tokens; parsing and  *)
(* pretty-printing are modelled as conversions between token texts and     *)
(* JSON values.                                                            *)
(***************************************************************************)
EXTENDS Integers, Sequences, FiniteSets, TLC

\* ------------------------------------------------------------------------
\* Bounds of the model
\* ------------------------------------------------------------------------

\* largest number of files in a preset (over all its sections)
MaxFiles == 2

\* number of pull runs of the same preset on the same target
MaxRuns == 2

\* the longest text (in characters) and the longest path (in tokens) a
\* helper function is called with
MaxLen == 4

\* the most lines a front matter has
MaxLines == 2

\* ------------------------------------------------------------------------
\* Texts
\* ------------------------------------------------------------------------

WhiteSpace == {" ", "\t", "\n", "\r"}

RECURSIVE TrimEnd(_)
\* str::trim_end
TrimEnd(s) ==
    IF s = <<>> THEN <<>>
    ELSE IF s[Len(s)] \in WhiteSpace THEN TrimEnd(SubSeq(s, 1, Len(s) - 1))
    ELSE s

RECURSIVE TrimStart(_)
\* str::trim_start
TrimStart(s) ==
    IF s = <<>> THEN <<>>
    ELSE IF s[1] \in WhiteSpace THEN TrimStart(Tail(s))
    ELSE s

\* str::trim
Trim(s) == TrimStart(TrimEnd(s))

\* index of the first line feed of s, or 0
FirstLF(s) ==
    IF \E i \in 1..Len(s) : s[i] = "\n"
    THEN CHOOSE i \in 1..Len(s) : s[i] = "\n" /\ \A j \in 1..(i - 1) : s[j] # "\n"
    ELSE 0

\* a line as str::lines yields it: without the carriage return that precedes
\* its line feed
StripCR(line) ==
    IF line # <<>> /\ line[Len(line)] = "\r" THEN SubSeq(line, 1, Len(line) - 1)
    ELSE line

RECURSIVE Lines(_)
\* str::lines: split at "\n" or "\r\n"; a final line feed ends the last line
\* and adds no empty line; a final line without a line feed is kept as it is
Lines(s) ==
    IF s = <<>> THEN <<>>
    ELSE LET i == FirstLF(s) IN
         IF i = 0 THEN <<s>>
         ELSE <<StripCR(SubSeq(s, 1, i - 1))>> \o Lines(SubSeq(s, i + 1, Len(s)))

RECURSIVE JoinLF(_)
\* [String]::join("\n")
JoinLF(ls) ==
    IF ls = <<>> THEN <<>>
    ELSE IF Len(ls) = 1 THEN ls[1]
    ELSE ls[1] \o <<"\n">> \o JoinLF(Tail(ls))

MapTrimEnd(ls) == [i \in 1..Len(ls) |-> TrimEnd(ls[i])]

\* a normalization without the final trim
normalize_content_untrimmed(content) == JoinLF(MapTrimEnd(Lines(content)))

\* normalize_content: lines, trim_end each, join with "\n", trim
normalize_content(content) == Trim(JoinLF(MapTrimEnd(Lines(content))))

\* a separator without the rule
Separator_blank_line == <<"\n", "\n">>

\* the separator of the concatenation merge
Separator == <<"\n", "\n", "-", "-", "-", "\n", "\n">>

\* ------------------------------------------------------------------------
\* JSON values (serde_json::Value), parsing and pretty-printing
\* ------------------------------------------------------------------------

\* the keys an object may have, in the order serde_json's map keeps them
\* (sorted)
KeyOrder == <<"a", "b", "k", "mcpServers">>

JsonKeys == {KeyOrder[i] : i \in 1..Len(KeyOrder)}

\* opaque scalar values (server definitions, setting values)
JsonAtoms == {"c1", "c2", "v1", "v2"}

EmptyMap == [x \in {} |-> x]

Atom(v) == [t |-> "atom", v |-> v, m |-> EmptyMap]

Obj(m) == [t |-> "obj", v |-> "", m |-> m]

\* an insert that keeps the value a key already has
Put_keeping_first(m, k, v) ==
    [x \in (DOMAIN m) \cup {k} |-> IF x \in DOMAIN m THEN m[x] ELSE v]

\* Map::insert / IndexMut assignment: the later value replaces the earlier
Put(m, k, v) == [x \in (DOMAIN m) \cup {k} |-> IF x = k THEN v ELSE m[x]]

ParseFail == [ok |-> FALSE, val |-> Atom("null"), next |-> 0]

RECURSIVE ParseValue(_, _), ParseMembers(_, _, _)
\* a value starting at token i of t
ParseValue(t, i) ==
    IF i > Len(t) THEN ParseFail
    ELSE IF t[i] = "{"
         THEN IF i + 1 <= Len(t) /\ t[i + 1] = "}"
              THEN [ok |-> TRUE, val |-> Obj(EmptyMap), next |-> i + 2]
              ELSE ParseMembers(t, i + 1, EmptyMap)
    ELSE IF t[i] \in JsonAtoms
         THEN [ok |-> TRUE, val |-> Atom(t[i]), next |-> i + 1]
    ELSE ParseFail

\* the members of an object from token i on; a repeated key keeps the
\* last value
ParseMembers(t, i, acc) ==
    IF i + 1 > Len(t) \/ t[i] \notin JsonKeys \/ t[i + 1] # ":" THEN ParseFail
    ELSE LET r == ParseValue(t, i + 2) IN
         IF ~r.ok \/ r.next > Len(t) THEN ParseFail
         ELSE IF t[r.next] = "}"
              THEN [ok |-> TRUE, val |-> Obj(Put(acc, t[i], r.val)), next |-> r.next + 1]
         ELSE IF t[r.next] = ","
              THEN ParseMembers(t, r.next + 1, Put(acc, t[i], r.val))
         ELSE ParseFail

\* serde_json::from_str: the whole text, surrounding white space allowed
from_str(text) ==
    LET t == Trim(text)
        r == ParseValue(t, 1)
    IN IF r.ok /\ r.next = Len(t) + 1 THEN r ELSE ParseFail

RECURSIVE to_string_pretty(_), PrettyMembers(_, _, _)
\* serde_json::to_string_pretty (indentation is not modelled)
to_string_pretty(val) ==
    IF val.t = "atom" THEN <<val.v>>
    ELSE <<"{">> \o PrettyMembers(val.m, 1, TRUE) \o <<"}">>

\* the members of m whose key is KeyOrder[i] or later
PrettyMembers(m, i, first) ==
    IF i > Len(KeyOrder) THEN <<>>
    ELSE IF KeyOrder[i] \notin DOMAIN m THEN PrettyMembers(m, i + 1, first)
    ELSE (IF first THEN <<>> ELSE <<",">>)
         \o <<KeyOrder[i], ":">> \o to_string_pretty(m[KeyOrder[i]])
         \o PrettyMembers(m, i + 1, FALSE)

\* ------------------------------------------------------------------------
\* ConflictMode and its transition function
\* ------------------------------------------------------------------------

Force == [kind |-> "Force", decisions |-> EmptyMap, fallback_all |-> "None"]

Skip == [kind |-> "Skip", decisions |-> EmptyMap, fallback_all |-> "None"]

Ask == [kind |-> "Ask", decisions |-> EmptyMap, fallback_all |-> "None"]

\* fallback_all is "None", "SomeTrue" or "SomeFalse"
PreResolved(decisions, fallback_all) ==
    [kind |-> "PreResolved", decisions |-> decisions, fallback_all |-> fallback_all]

\* what the operator may type at a per-file prompt; ReadError is a failed
\* read_line
ReadError == "<read error>"

AskInputs == {"o", "s", "d", "O", "S", "", "x", ReadError}

\* an ask_user that takes a failed read for an overwrite
ask_user_fail_open(input, diff_available) ==
    IF input = ReadError THEN "Overwrite"
    ELSE IF input \in {"o", "y", "yes"} THEN "Overwrite"
    ELSE IF input \in {"s", "n", "no"} THEN "Skip"
    ELSE IF input = "d" /\ diff_available THEN "ShowDiff"
    ELSE IF input \in {"O", "a", "all"} THEN "OverwriteAll"
    ELSE IF input \in {"S", "N"} THEN "SkipAll"
    ELSE IF input = "" THEN "Skip"
    ELSE "Retry"

\* ask_user: the decision for one line of input, "Retry" when the prompt is
\* printed again
ask_user(input, diff_available) ==
    IF input = ReadError THEN "Skip"
    ELSE IF input \in {"o", "y", "yes"} THEN "Overwrite"
    ELSE IF input \in {"s", "n", "no"} THEN "Skip"
    ELSE IF input = "d" /\ diff_available THEN "ShowDiff"
    ELSE IF input \in {"O", "a", "all"} THEN "OverwriteAll"
    ELSE IF input \in {"S", "N"} THEN "SkipAll"
    ELSE IF input = "" THEN "Skip"
    ELSE "Retry"

\* a resolve_conflict that asks for every undecided path, whether or not a
\* fallback is set
NeedsPrompt_without_fallback(m, file_path) ==
    \/ m.kind = "Ask"
    \/ /\ m.kind = "PreResolved"
       /\ file_path \notin DOMAIN m.decisions

\* resolve_conflict blocks on ask_user in these modes
NeedsPrompt(m, file_path) ==
    \/ m.kind = "Ask"
    \/ /\ m.kind = "PreResolved"
       /\ file_path \notin DOMAIN m.decisions
       /\ m.fallback_all = "None"

\* a resolve_conflict that lets Skip write
ResolveDirect_skip_writes(m, file_path) ==
    IF m.kind = "Force" THEN TRUE
    ELSE IF m.kind = "Skip" THEN TRUE
    ELSE IF file_path \in DOMAIN m.decisions THEN m.decisions[file_path]
    ELSE m.fallback_all = "SomeTrue"

\* a resolve_conflict that passes over the recorded decisions
ResolveDirect_ignoring_decisions(m, file_path) ==
    IF m.kind = "Force" THEN TRUE
    ELSE IF m.kind = "Skip" THEN FALSE
    ELSE m.fallback_all = "SomeTrue"

\* a resolve_conflict that consults a set fallback before the recorded
\* decisions
ResolveDirect_fallback_first(m, file_path) ==
    IF m.kind = "Force" THEN TRUE
    ELSE IF m.kind = "Skip" THEN FALSE
    ELSE IF m.fallback_all # "None" THEN m.fallback_all = "SomeTrue"
    ELSE m.decisions[file_path]

\* resolve_conflict where it returns without asking
ResolveDirect(m, file_path) ==
    IF m.kind = "Force" THEN TRUE
    ELSE IF m.kind = "Skip" THEN FALSE
    ELSE IF file_path \in DOMAIN m.decisions THEN m.decisions[file_path]
    ELSE m.fallback_all = "SomeTrue"

\* a resolve_conflict whose overwrite answer also switches Ask to Force
ResolveAnswer_sticky(m, decision) ==
    IF decision = "Overwrite"
    THEN [write |-> TRUE, mode |-> IF m.kind = "Ask" THEN Force ELSE m]
    ELSE IF decision = "Skip" THEN [write |-> FALSE, mode |-> m]
    ELSE IF decision = "OverwriteAll"
         THEN [write |-> TRUE,
               mode |-> IF m.kind = "Ask" THEN Force
                        ELSE [m EXCEPT !.fallback_all = "SomeTrue"]]
    ELSE [write |-> FALSE,
          mode |-> IF m.kind = "Ask" THEN Skip
                   ELSE [m EXCEPT !.fallback_all = "SomeFalse"]]

\* resolve_conflict after ask_user returned decision: the boolean
\* returned and the mode left behind
ResolveAnswer(m, decision) ==
    IF decision = "Overwrite" THEN [write |-> TRUE, mode |-> m]
    ELSE IF decision = "Skip" THEN [write |-> FALSE, mode |-> m]
    ELSE IF decision = "OverwriteAll"
         THEN [write |-> TRUE,
               mode |-> IF m.kind = "Ask" THEN Force
                        ELSE [m EXCEPT !.fallback_all = "SomeTrue"]]
    ELSE [write |-> FALSE,
          mode |-> IF m.kind = "Ask" THEN Skip
                   ELSE [m EXCEPT !.fallback_all = "SomeFalse"]]

\* ------------------------------------------------------------------------
\* Paths: sequences of tokens, "/" among them
\* ------------------------------------------------------------------------

RECURSIVE RemoveAll(_, _)
\* str::replace(pat, ""): every non-overlapping occurrence of pat, from the
\* left
RemoveAll(s, pat) ==
    IF Len(s) < Len(pat) THEN s
    ELSE IF SubSeq(s, 1, Len(pat)) = pat
         THEN RemoveAll(SubSeq(s, Len(pat) + 1, Len(s)), pat)
    ELSE <<s[1]>> \o RemoveAll(Tail(s), pat)

\* strip_section_prefix
strip_section_prefix(relative_path, section) ==
    RemoveAll(RemoveAll(relative_path, <<section, "/">>), <<section, "\\">>)

\* Path::join and format!("{}/{}", ..)
Join(dir, name) == dir \o <<"/">> \o name

\* the directories above path p (Path::parent, repeated); the target
\* directory itself is not listed
Ancestors(p) == {SubSeq(p, 1, i - 1) : i \in {j \in 2..Len(p) : p[j] = "/"}}

ClaudeDir == <<".claude">>

\* where each one-to-one section of the Claude Code adapter is written
SectionDir(section) == Join(ClaudeDir, <<section>>)

ClaudeMd == Join(ClaudeDir, <<"CLAUDE.md">>)

SettingsFile == Join(ClaudeDir, <<"settings.local.json">>)

HooksFile == Join(ClaudeDir, <<"hooks.json">>)

\* ------------------------------------------------------------------------
\* Presets
\* ------------------------------------------------------------------------

PresetFile(relative_path, content) ==
    [relative_path |-> relative_path, content |-> content]

\* the text of the preset's one-to-one files, a text that differs from it
\* only in trailing white space, and a text that differs
NewText == <<"N">>

SameText == <<"N", " ", "\n">>

OldText == <<"O">>

RootChoices == {<<>>, <<PresetFile(<<"README.md">>, NewText)>>}

RulesChoices ==
    {<<>>,
     <<PresetFile(<<"rules", "/", "a.md">>, NewText)>>,
     <<PresetFile(<<"rules", "/", "a.md">>, NewText),
       PresetFile(<<"rules", "/", "b.md">>, NewText)>>}

MemoryChoices ==
    {<<>>,
     <<PresetFile(<<"memory", "/", "ctx.md">>, <<"A">>)>>,
     <<PresetFile(<<"memory", "/", "ctx.md">>, <<"A">>),
       PresetFile(<<"memory", "/", "more.md">>, <<"B">>)>>}

\* a command file may end in white space that normalize_content removes
CommandsChoices ==
    {<<>>,
     <<PresetFile(<<"commands", "/", "build.md">>, NewText)>>,
     <<PresetFile(<<"commands", "/", "build.md">>, SameText)>>}

AgentsChoices == {<<>>, <<PresetFile(<<"agents", "/", "x.md">>, NewText)>>}

SkillsChoices == {<<>>, <<PresetFile(<<"skills", "/", "x.ts">>, NewText)>>}

\* the two files of the last choice have the same server name
McpChoices ==
    {<<>>,
     <<PresetFile(<<"mcp", "/", "a", ".json">>, <<"c1">>)>>,
     <<PresetFile(<<"mcp", "/", "a", ".json">>, <<"#">>)>>,
     <<PresetFile(<<"mcp", "/", "a", ".json">>, <<"c1">>),
       PresetFile(<<"mcp", "/", "mcp", "/", "a", ".json">>, <<"c2">>)>>}

HooksChoices == {<<>>, <<PresetFile(<<"hooks", "/", "a", ".json">>, <<"c1">>)>>}

\* a settings file may hold an object or a scalar; the two files of the
\* last choice set the same key
SettingsChoices ==
    {<<>>,
     <<PresetFile(<<"settings", "/", "s", ".json">>, <<"{", "k", ":", "v1", "}">>)>>,
     <<PresetFile(<<"settings", "/", "s", ".json">>, <<"v1">>)>>,
     <<PresetFile(<<"settings", "/", "s", ".json">>, <<"{", "k", ":", "v1", "}">>),
       PresetFile(<<"settings", "/", "t", ".json">>, <<"{", "k", ":", "v2", "}">>)>>}

MergeStrategy == {"Concat", "Replace"}

FileCount(p) ==
    Len(p.root) + Len(p.rules) + Len(p.memory) + Len(p.commands) + Len(p.mcp)
    + Len(p.hooks) + Len(p.agents) + Len(p.skills) + Len(p.settings)

\* the presets of the model: PresetFiles with the merge strategies of the
\* merged sections; a strategy is only varied where its section has files
Presets ==
    {p \in [root : RootChoices, rules : RulesChoices, memory : MemoryChoices,
            commands : CommandsChoices, mcp : McpChoices, hooks : HooksChoices,
            agents : AgentsChoices, skills : SkillsChoices,
            settings : SettingsChoices, memory_strategy : MergeStrategy,
            mcp_strategy : MergeStrategy, settings_strategy : MergeStrategy] :
        /\ FileCount(p) <= MaxFiles
        /\ (p.memory = <<>> => p.memory_strategy = "Concat")
        /\ (p.mcp = <<>> => p.mcp_strategy = "Concat")
        /\ (p.settings = <<>> => p.settings_strategy = "Concat")}

OneToOneSections == {"rules", "commands", "agents", "skills"}

\* the destination of file number i of a one-to-one section:
\* relative_path.replace("<section>/", "") under the section's directory
OneToOneTarget(section, file) ==
    Join(SectionDir(section), RemoveAll(file.relative_path, <<section, "/">>))

\* the paths a preset is written to
Targets(p) ==
    {p.root[i].relative_path : i \in 1..Len(p.root)}
    \cup UNION {{OneToOneTarget(sec, p[sec][i]) : i \in 1..Len(p[sec])} :
                sec \in OneToOneSections}
    \cup (IF p.memory # <<>> THEN {ClaudeMd} ELSE {})
    \cup (IF p.mcp # <<>> \/ p.settings # <<>> THEN {SettingsFile} ELSE {})
    \cup (IF p.hooks # <<>> THEN {HooksFile} ELSE {})

\* what a file of the target may hold before the first run
ExistingChoices(path) ==
    IF path = SettingsFile
    THEN {<<"{", "k", ":", "v2", "}">>,
          <<"{", "mcpServers", ":", "{", "b", ":", "c2", "}", "}">>}
    ELSE IF path = HooksFile
    THEN {<<"{", "a", ":", "c1", "}">>, <<"{", "b", ":", "c2", "}">>}
    ELSE IF path = ClaudeMd
    THEN {<<"A">>, <<"E">>}
    ELSE {SameText, OldText}

\* ------------------------------------------------------------------------
\* State
\* ------------------------------------------------------------------------

VARIABLES
    fs,             \* the target's files: path -> text, for the paths that exist
    dirs,           \* the target's directories
    preset,         \* the parsed preset (PresetFiles and merge strategies)
    tools,          \* the adapters of the run, in order
    dry_run,        \* pull_preset's flags
    force,
    skip,
    pc,             \* where pull_preset is
    all_changes,    \* pull_preset's change list
    conflict_mode,  \* pull_preset's conflict_mode
    mode,           \* current_mode of apply_root_files / mode of apply
    pos,            \* the section and file the apply phase is at
    pending,        \* the write that waits in ask_user
    result,         \* the ApplyResult of the root files and of each adapter
    run,            \* number of the run
    fs0,            \* the files when the run began
    dirs0,          \* the directories when the run began
    standing,       \* the "all" answer given at a per-file prompt of this run
    lastInput,      \* the line ask_user read last
    runAnswer,      \* the operator's answer to the run-level prompt of this run
    prevForced,     \* the run before this one applied the preset to the end with mode Force
    args,           \* the arguments of a call of a helper function
    ret             \* what the call returned

vars == <<fs, dirs, preset, tools, dry_run, force, skip, pc, all_changes,
          conflict_mode, mode, pos, pending, result, run, fs0, dirs0,
          standing, lastInput, runAnswer, prevForced, args, ret>>

\* what pull_preset is given and what it leaves alone
inputs == <<preset, tools, dry_run, force, skip, args, ret>>

\* no helper function is called on its own
NoArgs == [op |-> "none", x |-> <<>>, y |-> <<>>, opt |-> ""]

\* val is the text a helper returned, same the boolean
NoRet == [op |-> "none", val |-> <<>>, same |-> FALSE]

\* what ask_user returned last
lastDecision ==
    IF lastInput = "None" THEN "None" ELSE ask_user(lastInput, TRUE)

\* ApplyResult::new
NewResult == [created |-> <<>>, updated |-> <<>>, skipped |-> <<>>, unchanged |-> <<>>]

NoResults == [t \in {"Root", "Claude Code"} |-> NewResult]

NoPending == [path |-> <<>>, content |-> <<>>]

NoPos == [sec |-> "none", idx |-> 0]

\* the files before the first run: some of the preset's destinations exist
InitialFs(p) ==
    {f \in UNION {[ex -> UNION {ExistingChoices(q) : q \in ex}] : ex \in SUBSET Targets(p)} :
        \A q \in DOMAIN f : f[q] \in ExistingChoices(q)}

Init ==
    /\ preset \in Presets
    /\ fs \in InitialFs(preset)
    \* the directories of the existing files; .claude may exist without files
    /\ dirs \in {d \in {UNION {Ancestors(q) : q \in DOMAIN fs},
                        UNION {Ancestors(q) : q \in DOMAIN fs} \cup {ClaudeDir}} : TRUE}
    \* detect_tools / all_tools: the Claude Code adapter is in the run when
    \* .claude exists; otherwise when its command is installed or it is
    \* named by --tools
    /\ tools \in (IF ClaudeDir \in dirs THEN {<<"Claude Code">>}
                  ELSE {<<>>, <<"Claude Code">>})
    /\ dry_run \in BOOLEAN
    /\ force \in BOOLEAN
    /\ skip \in BOOLEAN
    /\ ~(force /\ skip)
    /\ pc = "start"
    /\ all_changes = <<>>
    /\ conflict_mode = Ask
    /\ mode = Ask
    /\ pos = NoPos
    /\ pending = NoPending
    /\ result = NoResults
    /\ run = 1
    /\ fs0 = fs
    /\ dirs0 = dirs
    /\ standing = "None"
    /\ lastInput = "None"
    /\ runAnswer = "None"
    /\ prevForced = FALSE
    /\ args = NoArgs
    /\ ret = NoRet

\* ------------------------------------------------------------------------
\* Scan
\* ------------------------------------------------------------------------

PendingChange(tool, path, section, is_conflict, is_identical) ==
    [tool |-> tool, path |-> path, section |-> section,
     is_conflict |-> is_conflict, is_identical |-> is_identical]

\* a classification that calls a missing destination identical
Classify_missing_identical(target_path, content) ==
    IF target_path \in DOMAIN fs
    THEN <<TRUE, normalize_content(fs[target_path]) = normalize_content(content)>>
    ELSE <<FALSE, TRUE>>

\* the (is_conflict, is_identical) pair of a destination with a known
\* proposed content
Classify(target_path, content) ==
    IF target_path \in DOMAIN fs
    THEN <<TRUE, normalize_content(fs[target_path]) = normalize_content(content)>>
    ELSE <<FALSE, FALSE>>

\* ScanResult::add_change
add_change(tool, path, section, is_conflict) ==
    PendingChange(tool, path, section, is_conflict, FALSE)

\* an add_change_with_content that does not compare the contents
add_change_with_content_blind(tool, path, section, target_path, preset_content) ==
    PendingChange(tool, path, section, Classify(target_path, preset_content)[1], FALSE)

\* ScanResult::add_change_with_content
add_change_with_content(tool, path, section, target_path, preset_content) ==
    PendingChange(tool, path, section, Classify(target_path, preset_content)[1],
                  Classify(target_path, preset_content)[2])

\* scan_one_to_one, without filename or content transform
scan_one_to_one(tool, files, section, target_dir) ==
    [i \in 1..Len(files) |->
        add_change_with_content(
            tool,
            Join(target_dir, strip_section_prefix(files[i].relative_path, section)),
            section,
            Join(target_dir, strip_section_prefix(files[i].relative_path, section)),
            files[i].content)]

\* scan_merged_section
scan_merged_section(tool, files, display_path, section) ==
    IF files # <<>>
    THEN <<add_change(tool, display_path, section, display_path \in DOMAIN fs)>>
    ELSE <<>>

\* the scan of the root files in pull_preset
ScanRoot ==
    [i \in 1..Len(preset.root) |->
        PendingChange("Root", preset.root[i].relative_path, "root",
                      Classify(preset.root[i].relative_path, preset.root[i].content)[1],
                      Classify(preset.root[i].relative_path, preset.root[i].content)[2])]

\* ToolAdapter::scan of the Claude Code adapter: its sections in the order
\* apply takes them, one-to-one sections by content, merged sections by
\* existence
ClaudeScan ==
    scan_one_to_one("Claude Code", preset.rules, "rules", SectionDir("rules"))
    \o scan_merged_section("Claude Code", preset.memory, ClaudeMd, "memory")
    \o scan_one_to_one("Claude Code", preset.commands, "commands", SectionDir("commands"))
    \o scan_merged_section("Claude Code", preset.mcp, SettingsFile, "mcp")
    \o scan_merged_section("Claude Code", preset.hooks, HooksFile, "hooks")
    \o scan_one_to_one("Claude Code", preset.agents, "agents", SectionDir("agents"))
    \o scan_one_to_one("Claude Code", preset.skills, "skills", SectionDir("skills"))
    \o scan_merged_section("Claude Code", preset.settings, SettingsFile, "settings")

\* pull_preset's three views of the change list
Creates(changes) == SelectSeq(changes, LAMBDA c : ~c.is_conflict)

Conflicts(changes) == SelectSeq(changes, LAMBDA c : c.is_conflict /\ ~c.is_identical)

Unchanged(changes) == SelectSeq(changes, LAMBDA c : c.is_identical)

\* pull_preset up to the end of the display: tool selection, scan of the
\* root files and of every tool; it returns when no tool is selected or
\* when there is no change
Scan ==
    /\ pc = "start"
    /\ IF tools = <<>>
       THEN /\ pc' = "done"
            /\ UNCHANGED all_changes
       ELSE /\ all_changes' = ScanRoot \o ClaudeScan
            /\ pc' = IF all_changes' = <<>> THEN "done" ELSE "scanned"
    /\ UNCHANGED <<fs, dirs, inputs, conflict_mode, mode, pos, pending, result,
                   run, fs0, dirs0, standing, lastInput, runAnswer, prevForced>>

\* pull_preset, phase 3: a dry run returns after the display
DryRunStop ==
    /\ pc = "scanned"
    /\ dry_run
    /\ pc' = "done"
    /\ UNCHANGED <<fs, dirs, inputs, all_changes, conflict_mode, mode, pos,
                   pending, result, run, fs0, dirs0, standing, lastInput,
                   runAnswer, prevForced>>

\* ------------------------------------------------------------------------
\* Decide
\* ------------------------------------------------------------------------

\* the order of the apply phase: the root files, then the adapter's apply
\* (entry, then its sections in the order of ClaudeCodeAdapter::apply)
ApplyOrder ==
    <<"root", "tool", "rules", "memory", "commands", "mcp", "hooks", "agents",
      "skills", "settings">>

\* the number of writes a section makes: one per file for the root files and
\* the one-to-one sections, one for a merged section that has files; a
\* section without files returns at once
Units(sec) ==
    IF sec = "tool" THEN (IF tools = <<>> THEN 0 ELSE 1)
    ELSE IF sec \in OneToOneSections \cup {"root"} THEN Len(preset[sec])
    ELSE IF preset[sec] # <<>> THEN 1 ELSE 0

RECURSIVE FirstFrom(_)
\* the first write at or after place k of ApplyOrder
FirstFrom(k) ==
    IF k > Len(ApplyOrder) THEN [sec |-> "end", idx |-> 0]
    ELSE IF Units(ApplyOrder[k]) > 0 THEN [sec |-> ApplyOrder[k], idx |-> 1]
    ELSE FirstFrom(k + 1)

OrderIndex(sec) == CHOOSE k \in 1..Len(ApplyOrder) : ApplyOrder[k] = sec

\* the write that follows the one at p
NextPos(p) ==
    IF p.idx < Units(p.sec) THEN [sec |-> p.sec, idx |-> p.idx + 1]
    ELSE FirstFrom(OrderIndex(p.sec) + 1)

PcAt(p) == IF p.sec = "end" THEN "done" ELSE "apply"

\* pull_preset, phase 4, and the entry of phase 5 with the mode decided
StartApply(m) ==
    /\ conflict_mode' = m
    /\ mode' = m
    /\ pos' = FirstFrom(1)
    /\ pc' = PcAt(pos')
    /\ result' = NoResults

\* a decision that looks at the conflicts before the flags
DecideMode_conflicts_first(force_flag, skip_flag, conflicts) ==
    IF conflicts = <<>> THEN "Force"
    ELSE IF force_flag THEN "Force"
    ELSE IF skip_flag THEN "Skip"
    ELSE "ask"

\* pull_preset, phase 4: the mode the flags and the scan give, "ask" where
\* the operator is asked
DecideMode(force_flag, skip_flag, conflicts) ==
    IF force_flag THEN "Force"
    ELSE IF skip_flag THEN "Skip"
    ELSE IF conflicts = <<>> THEN "Force"
    ELSE "ask"

ModeOf(name) == IF name = "Force" THEN Force ELSE IF name = "Skip" THEN Skip ELSE Ask

\* a phase 4 that is entered by a dry run as well
Decide_in_dry_run ==
    /\ pc = "scanned"
    /\ LET m == DecideMode(force, skip, Conflicts(all_changes)) IN
       IF m = "ask"
       THEN /\ pc' = "asking_run"
            /\ UNCHANGED <<conflict_mode, mode, pos, result>>
       ELSE StartApply(ModeOf(m))
    /\ UNCHANGED <<fs, dirs, inputs, all_changes, pending, run, fs0, dirs0,
                   standing, lastInput, runAnswer, prevForced>>

\* pull_preset, phase 4
Decide ==
    /\ pc = "scanned"
    /\ ~dry_run
    /\ LET m == DecideMode(force, skip, Conflicts(all_changes)) IN
       IF m = "ask"
       THEN /\ pc' = "asking_run"
            /\ UNCHANGED <<conflict_mode, mode, pos, result>>
       ELSE StartApply(ModeOf(m))
    /\ UNCHANGED <<fs, dirs, inputs, all_changes, pending, run, fs0, dirs0,
                   standing, lastInput, runAnswer, prevForced>>

\* what the operator may type at the run-level prompt
RunInputs == {"f", "s", "i", "c", "", "x", ReadError}

\* a run-level prompt that takes an unrecognised answer for force
ask_conflict_resolution_lenient(input) ==
    IF input = ReadError THEN "error"
    ELSE IF input \in {"f", "force"} THEN "Force"
    ELSE IF input \in {"s", "skip"} THEN "Skip"
    ELSE IF input \in {"i", "interact", "interactive"} THEN "Ask"
    ELSE IF input \in {"c", "cancel", ""} THEN "exit"
    ELSE "Force"

\* ask_conflict_resolution: the mode for an answer, "exit" where the
\* process exits, "error" where read_line fails
ask_conflict_resolution(input) ==
    IF input = ReadError THEN "error"
    ELSE IF input \in {"f", "force"} THEN "Force"
    ELSE IF input \in {"s", "skip"} THEN "Skip"
    ELSE IF input \in {"i", "interact", "interactive"} THEN "Ask"
    ELSE "exit"

\* the operator answers the run-level prompt
AnswerRun ==
    /\ pc = "asking_run"
    /\ \E input \in RunInputs :
        LET a == ask_conflict_resolution(input) IN
        /\ runAnswer' = input
        /\ IF a = "error"
           THEN /\ pc' = "failed"
                /\ UNCHANGED <<conflict_mode, mode, pos, result>>
           ELSE IF a = "exit"
           THEN /\ pc' = "exited"
                /\ UNCHANGED <<conflict_mode, mode, pos, result>>
           ELSE StartApply(ModeOf(a))
    /\ UNCHANGED <<fs, dirs, inputs, all_changes, pending, run, fs0, dirs0,
                   standing, lastInput, prevForced>>

\* ------------------------------------------------------------------------
\* write_with_conflict
\* ------------------------------------------------------------------------

\* the ApplyResult being filled: apply_root_files' or the adapter's
Cur == IF pos.sec = "root" THEN "Root" ELSE "Claude Code"

\* an add_skipped that also reports the path as unchanged
AddTo_skipped_twice(list, path) ==
    [result EXCEPT ![Cur][list] = Append(result[Cur][list], path),
                   ![Cur]["unchanged"] = IF list = "skipped" THEN Append(@, path) ELSE @]

\* ApplyResult::add_created / add_updated / add_skipped / add_unchanged
AddTo(list, path) ==
    [result EXCEPT ![Cur][list] = Append(result[Cur][list], path)]

\* a write has been settled: the files, the directories and the mode it
\* leaves, the list its path is reported under, and the move to the next
\* write
Complete(list, path, newfs, newdirs, newmode) ==
    /\ fs' = newfs
    /\ dirs' = newdirs
    /\ mode' = newmode
    /\ result' = AddTo(list, path)
    /\ pos' = NextPos(pos)
    /\ pc' = PcAt(pos')
    /\ pending' = NoPending

\* a write_with_conflict that compares the two texts as they are
write_with_conflict_exact(path, content, predirs) ==
    IF path \in DOMAIN fs
    THEN IF fs[path] = content
         THEN Complete("unchanged", path, fs, predirs, mode)
         ELSE IF NeedsPrompt(mode, path)
         THEN /\ pc' = "prompt"
              /\ pending' = [path |-> path, content |-> content]
              /\ dirs' = predirs
              /\ UNCHANGED <<fs, mode, result, pos>>
         ELSE IF ResolveDirect(mode, path)
         THEN Complete("updated", path, Put(fs, path, content), predirs, mode)
         ELSE Complete("skipped", path, fs, predirs, mode)
    ELSE Complete("created", path, Put(fs, path, content),
                  predirs \cup Ancestors(path), mode)

\* write_with_conflict up to the point where it returns or resolve_conflict
\* blocks in ask_user; predirs are the directories after the caller's own
\* create_dir_all
write_with_conflict(path, content, predirs) ==
    IF path \in DOMAIN fs
    THEN IF normalize_content(fs[path]) = normalize_content(content)
         THEN Complete("unchanged", path, fs, predirs, mode)
         ELSE IF NeedsPrompt(mode, path)
         THEN /\ pc' = "prompt"
              /\ pending' = [path |-> path, content |-> content]
              /\ dirs' = predirs
              /\ UNCHANGED <<fs, mode, result, pos>>
         ELSE IF ResolveDirect(mode, path)
         THEN Complete("updated", path, Put(fs, path, content), predirs, mode)
         ELSE Complete("skipped", path, fs, predirs, mode)
    ELSE Complete("created", path, Put(fs, path, content),
                  predirs \cup Ancestors(path), mode)

\* the operator answers the per-file prompt of resolve_conflict; the rest of
\* write_with_conflict follows the answer
AnswerConflict ==
    /\ pc = "prompt"
    /\ \E input \in AskInputs :
        LET d == ask_user(input, TRUE)
            r == ResolveAnswer(mode, d)
        IN /\ lastInput' = input
           /\ IF d \in {"Retry", "ShowDiff"}
              THEN UNCHANGED <<fs, dirs, mode, result, pos, pc, pending, standing>>
              ELSE /\ standing' = IF d \in {"OverwriteAll", "SkipAll"} THEN d ELSE standing
                   /\ IF r.write
                      THEN Complete("updated", pending.path,
                                    Put(fs, pending.path, pending.content), dirs, r.mode)
                      ELSE Complete("skipped", pending.path, fs, dirs, r.mode)
    /\ UNCHANGED <<inputs, all_changes, conflict_mode, run, fs0, dirs0, runAnswer,
                   prevForced>>

\* what a write step leaves alone
WriteFrame ==
    UNCHANGED <<inputs, all_changes, conflict_mode, run, fs0, dirs0, standing,
                lastInput, runAnswer, prevForced>>

\* ------------------------------------------------------------------------
\* Apply: the root files
\* ------------------------------------------------------------------------

\* apply_root_files: one iteration of its loop
ApplyRootFile ==
    /\ pc = "apply"
    /\ pos.sec = "root"
    /\ write_with_conflict(preset.root[pos.idx].relative_path,
                           preset.root[pos.idx].content, dirs)
    /\ WriteFrame

\* ------------------------------------------------------------------------
\* Apply: the Claude Code adapter
\* ------------------------------------------------------------------------

\* ClaudeCodeAdapter::apply up to its first section: the mode is
\* pull_preset's conflict_mode, passed by value
ToolApply ==
    /\ pc = "apply"
    /\ pos.sec = "tool"
    /\ dirs' = dirs \cup {ClaudeDir}
    /\ mode' = conflict_mode
    /\ pos' = NextPos(pos)
    /\ pc' = PcAt(pos')
    /\ UNCHANGED <<fs, result, pending>>
    /\ WriteFrame

\* a one-to-one write of the normalized content
OneToOneWrite_normalized(section) ==
    write_with_conflict(OneToOneTarget(section, preset[section][pos.idx]),
                        normalize_content(preset[section][pos.idx].content),
                        dirs \cup {SectionDir(section)})

\* one iteration of the loop of a one-to-one section (the section's
\* directory is created before the first)
OneToOneWrite(section) ==
    write_with_conflict(OneToOneTarget(section, preset[section][pos.idx]),
                        preset[section][pos.idx].content,
                        dirs \cup {SectionDir(section)})

\* apply_rules
ApplyRules ==
    /\ pc = "apply"
    /\ pos.sec = "rules"
    /\ OneToOneWrite("rules")
    /\ WriteFrame

\* apply_commands
ApplyCommands ==
    /\ pc = "apply"
    /\ pos.sec = "commands"
    /\ OneToOneWrite("commands")
    /\ WriteFrame

\* apply_agents
ApplyAgents ==
    /\ pc = "apply"
    /\ pos.sec = "agents"
    /\ OneToOneWrite("agents")
    /\ WriteFrame

\* apply_skills
ApplySkills ==
    /\ pc = "apply"
    /\ pos.sec = "skills"
    /\ OneToOneWrite("skills")
    /\ WriteFrame

RECURSIVE JoinSeparator(_)
\* the memory files' contents joined with the separator
JoinSeparator(files) ==
    IF files = <<>> THEN <<>>
    ELSE IF Len(files) = 1 THEN files[1].content
    ELSE files[1].content \o Separator \o JoinSeparator(Tail(files))

\* an apply_memory that puts the new content before the existing content
ApplyMemory_new_first ==
    /\ pc = "apply"
    /\ pos.sec = "memory"
    /\ LET content == JoinSeparator(preset.memory) IN
       IF ClaudeMd \in DOMAIN fs
       THEN IF preset.memory_strategy = "Concat"
            THEN Complete("updated", ClaudeMd,
                          Put(fs, ClaudeMd, content \o Separator \o fs[ClaudeMd]),
                          dirs, mode)
            ELSE write_with_conflict(ClaudeMd, content, dirs)
       ELSE Complete("created", ClaudeMd, Put(fs, ClaudeMd, content), dirs, mode)
    /\ WriteFrame

\* apply_memory
ApplyMemory ==
    /\ pc = "apply"
    /\ pos.sec = "memory"
    /\ LET content == JoinSeparator(preset.memory) IN
       IF ClaudeMd \in DOMAIN fs
       THEN IF preset.memory_strategy = "Concat"
            THEN Complete("updated", ClaudeMd,
                          Put(fs, ClaudeMd, fs[ClaudeMd] \o Separator \o content),
                          dirs, mode)
            ELSE write_with_conflict(ClaudeMd, content, dirs)
       ELSE Complete("created", ClaudeMd, Put(fs, ClaudeMd, content), dirs, mode)
    /\ WriteFrame

\* the entry name of a JSON file: its relative path without the section
\* prefix and without ".json" (the presets of the model leave one token)
EntryName(file, section) ==
    RemoveAll(RemoveAll(file.relative_path, <<section, "/">>), <<".json">>)[1]

RECURSIVE MergeEntries(_, _, _)
\* the loop of apply_mcp and apply_hooks: each file's parsed content is
\* stored under its entry name in map acc; a file that does not parse ends
\* the loop with an error
MergeEntries(files, section, acc) ==
    IF files = <<>> THEN [ok |-> TRUE, m |-> acc]
    ELSE LET r == from_str(files[1].content) IN
         IF ~r.ok THEN [ok |-> FALSE, m |-> acc]
         ELSE MergeEntries(Tail(files), section,
                           Put(acc, EntryName(files[1], section), r.val))

RECURSIVE PutAll(_, _, _)
\* settings_map.insert(key, value) for the keys of new_map from place i of
\* KeyOrder on
PutAll(settings_map, new_map, i) ==
    IF i > Len(KeyOrder) THEN settings_map
    ELSE IF KeyOrder[i] \in DOMAIN new_map
         THEN PutAll(Put(settings_map, KeyOrder[i], new_map[KeyOrder[i]]), new_map, i + 1)
    ELSE PutAll(settings_map, new_map, i + 1)

RECURSIVE MergeSettings(_, _)
\* the loop of apply_settings: the keys of each file that is an object are
\* inserted into settings when settings is an object; a file that does not
\* parse ends the loop with an error
MergeSettings(files, settings) ==
    IF files = <<>> THEN [ok |-> TRUE, val |-> settings]
    ELSE LET r == from_str(files[1].content) IN
         IF ~r.ok THEN [ok |-> FALSE, val |-> settings]
         ELSE IF r.val.t = "obj" /\ settings.t = "obj"
              THEN MergeSettings(Tail(files), Obj(PutAll(settings.m, r.val.m, 1)))
         ELSE MergeSettings(Tail(files), settings)

\* a merge that starts from an empty object whatever the strategy is
ExistingSettings_fresh(strategy) ==
    [ok |-> TRUE, val |-> Obj(EmptyMap), next |-> 0]

\* the settings apply_mcp and apply_settings start from: the parsed
\* settings file under Concat when it exists, an empty object otherwise
ExistingSettings(strategy) ==
    IF strategy = "Concat" /\ SettingsFile \in DOMAIN fs
    THEN from_str(fs[SettingsFile])
    ELSE [ok |-> TRUE, val |-> Obj(EmptyMap), next |-> 0]

\* the run ends with an error (a `?` that returns Err, or a panic)
Fail ==
    /\ pc' = "failed"
    /\ UNCHANGED <<fs, dirs, mode, result, pos, pending>>

\* apply_mcp
ApplyMcp ==
    /\ pc = "apply"
    /\ pos.sec = "mcp"
    /\ LET base == ExistingSettings(preset.mcp_strategy) IN
       IF ~base.ok \/ base.val.t # "obj" THEN Fail
       ELSE LET settings == IF "mcpServers" \in DOMAIN base.val.m THEN base.val.m
                            ELSE Put(base.val.m, "mcpServers", Obj(EmptyMap))
            IN IF settings["mcpServers"].t # "obj" THEN Fail
               ELSE LET merged == MergeEntries(preset.mcp, "mcp", settings["mcpServers"].m) IN
                    IF ~merged.ok THEN Fail
                    ELSE write_with_conflict(
                             SettingsFile,
                             to_string_pretty(Obj(Put(settings, "mcpServers", Obj(merged.m)))),
                             dirs)
    /\ WriteFrame

\* apply_hooks
ApplyHooks ==
    /\ pc = "apply"
    /\ pos.sec = "hooks"
    /\ LET merged == MergeEntries(preset.hooks, "hooks", EmptyMap) IN
       IF ~merged.ok THEN Fail
       ELSE write_with_conflict(HooksFile, to_string_pretty(Obj(merged.m)), dirs)
    /\ WriteFrame

\* apply_settings
ApplySettings ==
    /\ pc = "apply"
    /\ pos.sec = "settings"
    /\ LET base == ExistingSettings(preset.settings_strategy) IN
       IF ~base.ok THEN Fail
       ELSE LET merged == MergeSettings(preset.settings, base.val) IN
            IF ~merged.ok THEN Fail
            ELSE write_with_conflict(SettingsFile, to_string_pretty(merged.val), dirs)
    /\ WriteFrame

\* the destination of the write the apply phase is at
CurTarget ==
    IF pos.sec = "root" THEN preset.root[pos.idx].relative_path
    ELSE IF pos.sec \in OneToOneSections
         THEN OneToOneTarget(pos.sec, preset[pos.sec][pos.idx])
    ELSE IF pos.sec = "memory" THEN ClaudeMd
    ELSE IF pos.sec = "hooks" THEN HooksFile
    ELSE SettingsFile

\* an I/O failure that undoes the writes of the run
IoFailure_rollback ==
    /\ pc \in {"apply", "prompt"}
    /\ pos.sec \notin {"end", "none"}
    /\ pc' = "failed"
    /\ fs' = fs0
    /\ dirs' = dirs0
    /\ UNCHANGED <<mode, result, pos, pending>>
    /\ WriteFrame

\* a filesystem call of the apply phase returns an error (create_dir_all,
\* read_to_string or write, before the prompt or after its answer): the `?`
\* ends pull_preset before anything is added to the result; the
\* directories of the write may have been created before the call that
\* fails
IoFailure ==
    /\ pc \in {"apply", "prompt"}
    /\ pos.sec \notin {"end", "none"}
    /\ pc' = "failed"
    /\ dirs' \in {dirs,
                  IF pos.sec = "tool" THEN dirs \cup {ClaudeDir}
                  ELSE dirs \cup Ancestors(CurTarget)}
    /\ UNCHANGED <<fs, mode, result, pos, pending>>
    /\ WriteFrame

\* ------------------------------------------------------------------------
\* Runs
\* ------------------------------------------------------------------------

\* the operator runs the same pull again on the target as the run left it
Rerun ==
    /\ pc \in {"done", "exited", "failed"}
    /\ run < MaxRuns
    /\ run' = run + 1
    /\ pc' = "start"
    /\ all_changes' = <<>>
    /\ conflict_mode' = Ask
    /\ mode' = Ask
    /\ pos' = NoPos
    /\ pending' = NoPending
    /\ result' = NoResults
    /\ fs0' = fs
    /\ dirs0' = dirs
    /\ standing' = "None"
    /\ lastInput' = "None"
    /\ runAnswer' = "None"
    /\ prevForced' = (pc = "done" /\ pos.sec = "end" /\ conflict_mode = Force)
    /\ UNCHANGED <<fs, dirs, inputs>>

Next ==
    \/ Scan
    \/ DryRunStop
    \/ Decide
    \/ AnswerRun
    \/ ApplyRootFile
    \/ ToolApply
    \/ ApplyRules
    \/ ApplyMemory
    \/ ApplyCommands
    \/ ApplyMcp
    \/ ApplyHooks
    \/ ApplyAgents
    \/ ApplySkills
    \/ ApplySettings
    \/ AnswerConflict
    \/ IoFailure
    \/ Rerun

Spec == Init /\ [][Next]_vars

\* ------------------------------------------------------------------------
\* The adapter's apply called on its own
\* ------------------------------------------------------------------------

\* the modes apply may be called with: any ConflictMode, the PreResolved
\* ones with decisions for some of the preset's destinations
ApplyModes(p) ==
    {Force, Skip, Ask}
    \cup {PreResolved(d, f) :
            d \in UNION {[ex -> BOOLEAN] : ex \in SUBSET Targets(p)},
            f \in {"None", "SomeTrue", "SomeFalse"}}

\* ToolAdapter::apply(preset_files, target_dir, conflict_mode) is about to
\* be called
InitApply ==
    /\ preset \in {p \in Presets : p.root = <<>>}
    /\ fs \in InitialFs(preset)
    /\ dirs = UNION {Ancestors(q) : q \in DOMAIN fs}
    /\ tools = <<"Claude Code">>
    /\ dry_run = FALSE
    /\ force = FALSE
    /\ skip = FALSE
    /\ pc = "apply"
    /\ all_changes = <<>>
    /\ conflict_mode \in ApplyModes(preset)
    \* decisions are recorded for conflicts: destinations that exist
    /\ DOMAIN conflict_mode.decisions \subseteq DOMAIN fs
    /\ mode = conflict_mode
    /\ pos = [sec |-> "tool", idx |-> 1]
    /\ pending = NoPending
    /\ result = NoResults
    /\ run = 1
    /\ fs0 = fs
    /\ dirs0 = dirs
    /\ standing = "None"
    /\ lastInput = "None"
    /\ runAnswer = "None"
    /\ prevForced = FALSE
    /\ args = NoArgs
    /\ ret = NoRet

NextApply ==
    \/ ToolApply
    \/ ApplyRules
    \/ ApplyMemory
    \/ ApplyCommands
    \/ ApplyMcp
    \/ ApplyHooks
    \/ ApplyAgents
    \/ ApplySkills
    \/ ApplySettings
    \/ AnswerConflict
    \/ IoFailure

SpecApply == InitApply /\ [][NextApply]_vars

\* ------------------------------------------------------------------------
\* The helper functions called on their own
\* ------------------------------------------------------------------------

\* the texts over an alphabet, up to n characters
Texts(alphabet, n) == UNION {[1..k -> alphabet] : k \in 0..n}

\* str::starts_with
StartsWith(s, prefix) ==
    Len(s) >= Len(prefix) /\ SubSeq(s, 1, Len(prefix)) = prefix

\* str::find: the place of the first occurrence of pat in s, or 0
Find(s, pat) ==
    LET hits == {i \in 1..(Len(s) - Len(pat) + 1) : SubSeq(s, i, i + Len(pat) - 1) = pat}
    IN IF hits = {} THEN 0 ELSE CHOOSE i \in hits : \A j \in hits : i <= j

Dashes == <<"-", "-", "-">>

\* has_frontmatter
has_frontmatter(content) ==
    LET trimmed == TrimStart(content) IN
    IF ~StartsWith(trimmed, Dashes) THEN FALSE
    ELSE LET after_opening == SubSeq(trimmed, 4, Len(trimmed)) IN
         IF ~StartsWith(after_opening, <<"\n">>) /\ ~StartsWith(after_opening, <<"\r", "\n">>)
         THEN FALSE
         ELSE LET p == Find(after_opening, <<"\n">> \o Dashes) IN
              IF p = 0 THEN FALSE
              ELSE LET after_close == SubSeq(after_opening, p + 4, Len(after_opening)) IN
                   \/ after_close = <<>>
                   \/ StartsWith(after_close, <<"\n">>)
                   \/ StartsWith(after_close, <<"\r", "\n">>)

\* the closure of convert_frontmatter_key: a line that starts with the key
\* and a colon, or the key, a space and a colon, gets the new key
ConvertLine(line, from_key, to_key) ==
    IF StartsWith(line, from_key \o <<":">>) \/ StartsWith(line, from_key \o <<" ", ":">>)
    THEN to_key \o SubSeq(line, Len(from_key) + 1, Len(line))
    ELSE line

\* convert_frontmatter_key
convert_frontmatter_key(content, from_key, to_key) ==
    IF ~has_frontmatter(content) THEN content
    ELSE LET trimmed == TrimStart(content)
             after_opening == SubSeq(trimmed, 4, Len(trimmed))
             p == Find(after_opening, <<"\n">> \o Dashes)
         IN IF p = 0 THEN content
            ELSE LET frontmatter == SubSeq(after_opening, 1, p)
                     rest == SubSeq(after_opening, p + 1, Len(after_opening))
                     ls == Lines(frontmatter)
                     converted == [i \in 1..Len(ls) |-> ConvertLine(ls[i], from_key, to_key)]
                 IN Dashes \o JoinLF(converted) \o rest

\* a text with every line feed made a carriage return and a line feed
WithCRLF(t) ==
    LET F[i \in 0..Len(t)] ==
            IF i = 0 THEN <<>>
            ELSE F[i - 1] \o (IF t[i] = "\n" THEN <<"\r", "\n">> ELSE <<t[i]>>)
    IN F[Len(t)]

\* a text with every line feed made a lone carriage return
WithCR(t) == [i \in 1..Len(t) |-> IF t[i] = "\n" THEN "\r" ELSE t[i]]

\* a text with a space at the end of every line
WithPaddedLines(t) ==
    LET F[i \in 0..Len(t)] ==
            IF i = 0 THEN <<>>
            ELSE F[i - 1] \o (IF t[i] = "\n" THEN <<" ", "\n">> ELSE <<t[i]>>)
    IN F[Len(t)] \o <<" ">>

\* the same text in another line-ending convention, with a line feed at
\* its end, or with white space at the end of its lines
Variant(how, t) ==
    IF how = "crlf" THEN WithCRLF(t)
    ELSE IF how = "cr" THEN WithCR(t)
    ELSE IF how = "newline" THEN t \o <<"\n">>
    ELSE WithPaddedLines(t)

NormalizeArgs ==
    {[op |-> "normalize", x |-> t, y |-> <<>>, opt |-> ""] :
        t \in Texts({"a", " ", "\t", "\n", "\r"}, MaxLen)}

CompareArgs ==
    {[op |-> "compare", x |-> t, y |-> Variant(how, t), opt |-> how] :
        t \in Texts({"a", " ", "\n"}, MaxLen),
        how \in {"crlf", "cr", "newline", "pad"}}

\* relative paths below a section directory: names with "/" between them
RelPaths ==
    {r \in Texts({"rules", "sub", "a.md", "/"}, MaxLen) :
        /\ Len(r) % 2 = 1
        /\ \A i \in 1..Len(r) : (r[i] = "/") <=> (i % 2 = 0)}

\* x is the relative path of a file of the section, y what follows the
\* section prefix
StripArgs ==
    {[op |-> "strip", x |-> <<section, "/">> \o rest, y |-> rest, opt |-> section] :
        section \in {"rules", "commands"}, rest \in RelPaths}

FromKey == <<"k">>

ToKey == <<"t", "o">>

\* the lines a front matter is made of
FmLines ==
    {<<"k", ":", "v">>, <<"k", " ", ":", "v">>, <<"j", ":", "v">>, <<"k", "k", ":", "v">>}

\* contents with a front matter of up to MaxLines lines, after optional
\* leading white space and before an optional body, and contents without a
\* front matter
FrontContents ==
    {lead \o Dashes \o <<"\n">> \o JoinLF(ls) \o <<"\n">> \o Dashes \o tail :
        lead \in {<<>>, <<"\n">>},
        ls \in UNION {[1..n -> FmLines] : n \in 1..MaxLines},
        tail \in {<<>>, <<"\n", "b">>}}
    \cup {Dashes \o <<"\n">> \o Dashes,
          <<"b">>,
          <<"k", ":", "v">>,
          Dashes \o <<"\n", "k", ":", "v">>,
          Dashes \o <<"\n", "k", ":", "v", "\n">> \o Dashes \o <<"b">>}

ConvertArgs ==
    {[op |-> "convert", x |-> c, y |-> <<>>, opt |-> ""] : c \in FrontContents}

\* the preset without files
NoPreset ==
    [root |-> <<>>, rules |-> <<>>, memory |-> <<>>, commands |-> <<>>,
     mcp |-> <<>>, hooks |-> <<>>, agents |-> <<>>, skills |-> <<>>,
     settings |-> <<>>, memory_strategy |-> "Concat", mcp_strategy |-> "Concat",
     settings_strategy |-> "Concat"]

\* a helper function is about to be called
InitHelpers ==
    /\ args \in NormalizeArgs \cup CompareArgs \cup StripArgs \cup ConvertArgs
    /\ ret = NoRet
    /\ pc = "helper"
    /\ preset = NoPreset
    /\ fs = EmptyMap
    /\ dirs = {}
    /\ tools = <<>>
    /\ dry_run = FALSE
    /\ force = FALSE
    /\ skip = FALSE
    /\ all_changes = <<>>
    /\ conflict_mode = Ask
    /\ mode = Ask
    /\ pos = NoPos
    /\ pending = NoPending
    /\ result = NoResults
    /\ run = 1
    /\ fs0 = fs
    /\ dirs0 = dirs
    /\ standing = "None"
    /\ lastInput = "None"
    /\ runAnswer = "None"
    /\ prevForced = FALSE

\* what a call of a helper function leaves alone
HelperFrame ==
    UNCHANGED <<fs, dirs, preset, tools, dry_run, force, skip, pc, all_changes,
                conflict_mode, mode, pos, pending, result, run, fs0, dirs0,
                standing, lastInput, runAnswer, prevForced, args>>

\* normalize_content(x)
CallNormalize ==
    /\ pc = "helper"
    /\ args.op = "normalize"
    /\ ret = NoRet
    /\ ret' = [op |-> "normalize", val |-> normalize_content(args.x), same |-> FALSE]
    /\ HelperFrame

\* the comparison of write_with_conflict and of the scan:
\* normalize_content(x) == normalize_content(y)
CallCompare ==
    /\ pc = "helper"
    /\ args.op = "compare"
    /\ ret = NoRet
    /\ ret' = [op |-> "compare", val |-> <<>>,
               same |-> normalize_content(args.x) = normalize_content(args.y)]
    /\ HelperFrame

\* strip_section_prefix(x, section)
CallStrip ==
    /\ pc = "helper"
    /\ args.op = "strip"
    /\ ret = NoRet
    /\ ret' = [op |-> "strip", val |-> strip_section_prefix(args.x, args.opt),
               same |-> FALSE]
    /\ HelperFrame

\* convert_frontmatter_key(x, from_key, to_key)
CallConvert ==
    /\ pc = "helper"
    /\ args.op = "convert"
    /\ ret = NoRet
    /\ ret' = [op |-> "convert", same |-> FALSE,
               val |-> convert_frontmatter_key(args.x, FromKey, ToKey)]
    /\ HelperFrame

NextHelpers ==
    \/ CallNormalize
    \/ CallCompare
    \/ CallStrip
    \/ CallConvert

SpecHelpers == InitHelpers /\ [][NextHelpers]_vars

\* ------------------------------------------------------------------------
\* Properties
\* ------------------------------------------------------------------------

Range(seq) == {seq[i] : i \in 1..Len(seq)}

\* the run applied the root files and the adapter to the end
ApplyEnded == pc = "done" /\ pos.sec = "end"

\* the decide step is over and the apply phase has begun
Decided == pos.sec # "none"

\* the paths reported under a list by the root files or the adapter
Reported(list) == Range(result["Root"][list]) \cup Range(result["Claude Code"][list])

\* the existing files have the content they had when the run began
ExistingKept == \A q \in DOMAIN fs0 : q \in DOMAIN fs /\ fs[q] = fs0[q]

\* C1: once the operator has answered overwrite-all or skip-all at a
\* per-file prompt, no later conflicting write of the run prompts again
C1_AllAnswerHonoured == standing # "None" => pc # "prompt"

\* C2: within one run, a mode that has become Force or Skip keeps that value
C2_ForceSkipPermanent ==
    [][(mode.kind \in {"Force", "Skip"} /\ run' = run) => mode' = mode]_vars

ScanPaths(conflict, identical) ==
    {all_changes[i].path :
        i \in {j \in 1..Len(all_changes) :
                  /\ all_changes[j].is_conflict = conflict
                  /\ all_changes[j].is_identical = identical}}

OneToOneChanges(conflict, identical) ==
    {all_changes[i].path :
        i \in {j \in 1..Len(all_changes) :
                  /\ all_changes[j].section \in OneToOneSections \cup {"root"}
                  /\ all_changes[j].is_conflict = conflict
                  /\ all_changes[j].is_identical = identical}}

OneToOnePaths ==
    OneToOneChanges(TRUE, TRUE) \cup OneToOneChanges(TRUE, FALSE)
    \cup OneToOneChanges(FALSE, FALSE)

C4_SecondForceApplyIdle ==
    (run >= 2 /\ prevForced /\ ApplyEnded /\ conflict_mode = Force) =>
        /\ Reported("created") = {}
        /\ Reported("updated") = {}

\* C5: under mode Skip no file that existed before the run changes
C5_SkipKeepsExisting == (Decided /\ conflict_mode = Skip) => ExistingKept

\* C6: the apply phase uses Force whenever the scan found no conflicting
\* change, whatever the flags
C6_NoConflictMeansForce ==
    (Decided /\ Conflicts(all_changes) = <<>>) => conflict_mode = Force

\* C6 as amended: a force or skip flag chooses the mode whether or not the
\* scan found a conflict; without a flag the mode is Force when the scan
\* found no conflicting change, and the operator is asked exactly when it
\* found one
C6_FlagsThenConflicts ==
    /\ Decided =>
        /\ force => conflict_mode = Force
        /\ skip => conflict_mode = Skip
        /\ (~force /\ ~skip /\ Conflicts(all_changes) = <<>>) => conflict_mode = Force
    /\ (pc = "asking_run" \/ runAnswer # "None") <=>
           /\ pc \notin {"start", "scanned"}
           /\ all_changes # <<>>
           /\ ~dry_run /\ ~force /\ ~skip
           /\ Conflicts(all_changes) # <<>>

\* the skip flag was given, the scan found no conflict and the apply phase
\* runs with Skip
C6_Witness ==
    /\ Decided
    /\ skip
    /\ Conflicts(all_changes) = <<>>
    /\ conflict_mode = Skip

\* C7: a dry run never enters the apply phase and leaves the files and the
\* directories of the target as they were
C7_DryRunReadOnly ==
    dry_run =>
        /\ fs = fs0
        /\ dirs = dirs0
        /\ pos = NoPos
        /\ result = NoResults
        /\ pc \in {"start", "scanned", "done"}

\* a dry run has ended after a scan that found a conflict and a creation
C7_Witness ==
    /\ dry_run
    /\ pc = "done"
    /\ Conflicts(all_changes) # <<>>
    /\ Creates(all_changes) # <<>>

\* C8: after an abort, an empty, an unrecognised or an unreadable answer to
\* the run-level prompt the run is over and nothing has been applied
C8_AbortBeforeWrites ==
    (runAnswer # "None" /\ runAnswer \notin {"f", "s", "i"}) =>
        /\ pc \in {"exited", "failed"}
        /\ fs = fs0
        /\ dirs = dirs0
        /\ pos = NoPos
        /\ result = NoResults

\* the run has ended on an unrecognised answer
C8_Witness == runAnswer = "x" /\ pc = "exited"

\* the current write has been settled in this step with its path reported
\* under list
ReportsUnder(list) ==
    /\ Len(result'[Cur][list]) = Len(result[Cur][list]) + 1
    /\ \A l \in {"created", "updated", "skipped", "unchanged"} \ {list} :
           result'[Cur][l] = result[Cur][l]

\* the prompted file is written with the proposed content and reported
\* under updated
PromptOverwrites ==
    /\ fs' = Put(fs, pending.path, pending.content)
    /\ result'[Cur]["updated"] = Append(result[Cur]["updated"], pending.path)
    /\ ReportsUnder("updated")
    /\ pc' # "prompt" \/ pending' # pending

\* the prompted file is left as it is and reported under skipped
PromptSkips ==
    /\ fs' = fs
    /\ result'[Cur]["skipped"] = Append(result[Cur]["skipped"], pending.path)
    /\ ReportsUnder("skipped")

\* the step is an answer to the per-file prompt whose write, if any, succeeds
Answered == pc = "prompt" /\ pc' # "failed"

\* C9: in mode Ask, overwrite and skip settle the current file only and
\* leave the mode Ask; overwrite-all and skip-all settle it and set the
\* mode to Force and Skip; show-difference changes nothing and the prompt
\* stays
C9_AskAnswers ==
    [][(Answered /\ mode = Ask) =>
          /\ lastDecision' = "Overwrite" => (PromptOverwrites /\ mode' = Ask)
          /\ lastDecision' = "Skip" => (PromptSkips /\ mode' = Ask)
          /\ lastDecision' = "OverwriteAll" => (PromptOverwrites /\ mode' = Force)
          /\ lastDecision' = "SkipAll" => (PromptSkips /\ mode' = Skip)
          /\ lastDecision' = "ShowDiff" =>
                 /\ pc' = "prompt"
                 /\ UNCHANGED <<fs, dirs, mode, result, pos, pending, standing>>
          /\ lastDecision' \in {"Overwrite", "Skip", "OverwriteAll", "SkipAll",
                                "ShowDiff", "Retry"}]_vars

\* after an overwrite answer in mode Ask the next conflict prompts again
C9_Witness ==
    /\ pc = "prompt"
    /\ mode = Ask
    /\ lastDecision = "Overwrite"
    /\ result[Cur]["updated"] # <<>>

\* the step is a write that calls resolve_conflict when its destination
\* exists with different content (apply_memory under Concat does not)
ResolvingWrite ==
    /\ pc = "apply"
    /\ pos.sec \notin {"tool", "end", "none"}
    /\ ~(pos.sec = "memory" /\ preset.memory_strategy = "Concat")

\* the path whose write this step settles, when it is reported as updated
\* or skipped
Settled(path) ==
    \/ result'[Cur]["updated"] = Append(result[Cur]["updated"], path)
    \/ result'[Cur]["skipped"] = Append(result[Cur]["skipped"], path)

\* C10: in mode PreResolved, a path absent from decisions is resolved by
\* the fallback without a prompt when the fallback is set; when it is unset
\* the operator is asked, overwrite-all and skip-all set the fallback and
\* leave decisions and the mode kind alone, overwrite and skip leave the
\* fallback unset
C10_PreResolvedFallback ==
    [][/\ (ResolvingWrite /\ pc' # "failed" /\ mode.kind = "PreResolved") =>
            /\ mode' = mode
            /\ mode.fallback_all # "None" =>
                   \A q \in Targets(preset) \ DOMAIN mode.decisions :
                       /\ pc' # "prompt" \/ pending'.path # q
                       /\ result'[Cur]["updated"] = Append(result[Cur]["updated"], q)
                              => mode.fallback_all = "SomeTrue"
                       /\ result'[Cur]["skipped"] = Append(result[Cur]["skipped"], q)
                              => mode.fallback_all = "SomeFalse"
            /\ mode.fallback_all = "None" =>
                   \A q \in Targets(preset) \ DOMAIN mode.decisions : ~Settled(q)
       /\ (Answered /\ mode.kind = "PreResolved") =>
            /\ pending.path \notin DOMAIN mode.decisions
            /\ mode.fallback_all = "None"
            /\ lastDecision' = "Overwrite" => (PromptOverwrites /\ mode' = mode)
            /\ lastDecision' = "Skip" => (PromptSkips /\ mode' = mode)
            /\ lastDecision' = "OverwriteAll" =>
                   /\ PromptOverwrites
                   /\ mode' = [mode EXCEPT !.fallback_all = "SomeTrue"]
            /\ lastDecision' = "SkipAll" =>
                   /\ PromptSkips
                   /\ mode' = [mode EXCEPT !.fallback_all = "SomeFalse"]]_vars

\* a fallback set by an inline skip-all answer has skipped a later path that
\* has no decision
C10_Witness ==
    /\ mode.kind = "PreResolved"
    /\ mode.fallback_all = "SomeFalse"
    /\ conflict_mode.fallback_all = "None"
    /\ Len(result["Claude Code"]["skipped"]) >= 2
    /\ \E i \in 1..Len(result["Claude Code"]["skipped"]) :
           result["Claude Code"]["skipped"][i] \notin DOMAIN mode.decisions

\* the step settles the current write: its path is reported under exactly
\* one list
Settles ==
    \E l \in {"created", "updated", "skipped", "unchanged"} :
        /\ ReportsUnder(l)
        /\ result' = AddTo(l, CurTarget)

\* C11: in mode PreResolved a path present in decisions is written exactly
\* when its recorded decision is true, without a prompt, and decisions and
\* the fallback stay as they are
C11_RecordedDecision ==
    [][(/\ ResolvingWrite
        /\ pc' # "failed"
        /\ mode.kind = "PreResolved"
        /\ CurTarget \in DOMAIN mode.decisions) =>
           /\ pc' # "prompt"
           /\ mode' = mode
           /\ Settles
           /\ ReportsUnder("updated") =>
                  /\ mode.decisions[CurTarget]
                  /\ fs' # fs
                  /\ fs' = Put(fs, CurTarget, fs'[CurTarget])
           /\ ReportsUnder("skipped") => (~mode.decisions[CurTarget] /\ fs' = fs)
           /\ ReportsUnder("unchanged") => fs' = fs
           /\ ~ReportsUnder("created")]_vars

\* one recorded decision has overwritten a file and another has kept one,
\* against a fallback that says the opposite
C11_Witness ==
    /\ mode.kind = "PreResolved"
    /\ \E q \in DOMAIN mode.decisions :
           /\ mode.decisions[q]
           /\ mode.fallback_all = "SomeFalse"
           /\ q \in Range(result["Claude Code"]["updated"])
    /\ \E q \in DOMAIN mode.decisions :
           /\ ~mode.decisions[q]
           /\ q \in Range(result["Claude Code"]["skipped"])

\* C12: in mode Force a conflicting write is made and in mode Skip it is
\* not, for every path and content, without a prompt, without reading
\* input, and with the mode left as it is
C12_ForceSkipDirect ==
    [][(ResolvingWrite /\ pc' # "failed" /\ mode.kind \in {"Force", "Skip"}) =>
           /\ pc' # "prompt"
           /\ lastInput' = lastInput
           /\ mode' = mode
           /\ Settles
           /\ mode = Force =>
                  /\ ~ReportsUnder("skipped")
                  /\ (CurTarget \in DOMAIN fs /\ ~ReportsUnder("unchanged")) =>
                         /\ ReportsUnder("updated")
                         /\ fs' = Put(fs, CurTarget, fs'[CurTarget])
                         /\ fs'[CurTarget] # fs[CurTarget]
           /\ mode = Skip =>
                  /\ ~ReportsUnder("updated")
                  /\ (CurTarget \in DOMAIN fs) =>
                         /\ fs' = fs
                         /\ ReportsUnder("skipped") \/ ReportsUnder("unchanged")]_vars

\* a run the operator answered with force has overwritten a differing file
\* and passed over an identical one
C12_Witness ==
    /\ runAnswer = "f"
    /\ mode = Force
    /\ Reported("updated") # {}
    /\ Reported("unchanged") # {}

\* C13: when the line of a per-file prompt cannot be read (read_line
\* fails, or the input has ended and the line read is empty) the file is
\* kept and reported under skipped, the mode stays as it is, and the apply
\* phase goes on with the next write
C13_UnreadableSkips ==
    [][(Answered /\ lastInput' \in {ReadError, ""}) =>
           /\ PromptSkips
           /\ result' = AddTo("skipped", pending.path)
           /\ mode' = mode
           /\ pos' = NextPos(pos)
           /\ pc' = PcAt(pos')]_vars

\* after a failed read skipped one file the next conflict is prompted for
C13_Witness ==
    /\ lastInput = ReadError
    /\ pc = "prompt"
    /\ mode = Ask
    /\ Reported("skipped") # {}
    /\ Reported("updated") = {}

\* the change scan_one_to_one gives for the one-to-one write the apply
\* phase is at, on the files as they are
CurScanned ==
    scan_one_to_one("Claude Code", preset[pos.sec], pos.sec, SectionDir(pos.sec))[pos.idx]

\* C14: a one-to-one destination that exists with content equal to the
\* proposed content after normalization is scanned as conflicting and
\* identical, and apply in every mode reports it under unchanged only,
\* leaves the file, does not prompt and leaves the mode
C14_IdenticalUnchanged ==
    [][(/\ pc = "apply"
        /\ pos.sec \in OneToOneSections
        /\ pc' # "failed"
        /\ CurTarget \in DOMAIN fs
        /\ normalize_content(fs[CurTarget])
               = normalize_content(preset[pos.sec][pos.idx].content)) =>
           /\ CurScanned.path = CurTarget
           /\ CurScanned.is_conflict
           /\ CurScanned.is_identical
           /\ result' = AddTo("unchanged", CurTarget)
           /\ fs' = fs
           /\ pc' # "prompt"
           /\ mode' = mode]_vars

\* a file that differs from the proposed content in trailing white space
\* only is reported unchanged although its recorded decision is to overwrite
C14_Witness ==
    /\ mode.kind = "PreResolved"
    /\ \E sec \in OneToOneSections :
         \E i \in 1..Len(preset[sec]) :
           LET q == OneToOneTarget(sec, preset[sec][i]) IN
           /\ q \in Range(result["Claude Code"]["unchanged"])
           /\ q \in DOMAIN mode.decisions
           /\ mode.decisions[q]
           /\ fs[q] # preset[sec][i].content

\* the content a write of a one-to-one section or of the memory section
\* proposes
Proposed ==
    IF pos.sec = "memory" THEN JoinSeparator(preset.memory)
    ELSE preset[pos.sec][pos.idx].content

\* C15: a write whose destination does not exist creates it with the
\* proposed content as it is, reports it under created only, in every
\* mode, without a prompt and with the mode left as it is
C15_MissingCreated ==
    [][(/\ pc = "apply"
        /\ pos.sec \notin {"tool", "end", "none"}
        /\ pc' # "failed"
        /\ CurTarget \notin DOMAIN fs) =>
           /\ result' = AddTo("created", CurTarget)
           /\ CurTarget \in DOMAIN fs'
           /\ fs' = Put(fs, CurTarget, fs'[CurTarget])
           /\ pos.sec \in OneToOneSections \cup {"root", "memory"} =>
                  fs'[CurTarget] = Proposed
           /\ pc' # "prompt"
           /\ mode' = mode]_vars

\* in mode Skip a missing file has been created with content that ends in
\* white space normalize_content would remove
C15_Witness ==
    /\ mode = Skip
    /\ \E q \in Range(result["Claude Code"]["created"]) :
           /\ q \notin DOMAIN fs0
           /\ fs[q] = SameText

RECURSIVE BlobUpTo(_)
\* the contents of the first k memory files of the preset in input order,
\* the separator between each two
BlobUpTo(k) ==
    IF k = 0 THEN <<>>
    ELSE IF k = 1 THEN preset.memory[1].content
    ELSE BlobUpTo(k - 1) \o <<"\n", "\n", "-", "-", "-", "\n", "\n">>
         \o preset.memory[k].content

\* the new blob N
Blob == BlobUpTo(Len(preset.memory))

\* C16: under Concat, when the memory file exists with content E, apply
\* leaves it with E, the separator, then N, and reports it under updated
C16_ConcatAppends ==
    [][(/\ pc = "apply"
        /\ pos.sec = "memory"
        /\ preset.memory_strategy = "Concat"
        /\ ClaudeMd \in DOMAIN fs
        /\ pc' # "failed") =>
           /\ fs' = Put(fs, ClaudeMd,
                        fs[ClaudeMd] \o <<"\n", "\n", "-", "-", "-", "\n", "\n">> \o Blob)
           /\ result' = AddTo("updated", ClaudeMd)]_vars

\* two memory files have been appended to an existing memory file
C16_Witness ==
    /\ ClaudeMd \in DOMAIN fs0
    /\ ClaudeMd \in DOMAIN fs
    /\ fs0[ClaudeMd] = <<"E">>
    /\ fs[ClaudeMd] = <<"E", "\n", "\n", "-", "-", "-", "\n", "\n", "A",
                        "\n", "\n", "-", "-", "-", "\n", "\n", "B">>
    /\ ClaudeMd \in Reported("updated")

\* C17: under Replace, when the memory file exists and the write is made,
\* the file holds N and nothing else; in mode Force the write is made
\* whenever the contents differ
C17_ReplaceOverwrites ==
    [][(/\ preset.memory_strategy = "Replace"
        /\ \/ pc = "apply" /\ pos.sec = "memory"
           \/ pc = "prompt" /\ pending.path = ClaudeMd
        /\ ClaudeMd \in DOMAIN fs
        /\ pc' # "failed") =>
           /\ ReportsUnder("updated") => fs' = Put(fs, ClaudeMd, Blob)
           /\ ~ReportsUnder("updated") => fs' = fs
           /\ (mode = Force /\ normalize_content(fs[ClaudeMd]) # normalize_content(Blob))
                  => ReportsUnder("updated")]_vars

\* an existing memory file has been replaced by the blob of two files
C17_Witness ==
    /\ preset.memory_strategy = "Replace"
    /\ ClaudeMd \in DOMAIN fs0
    /\ ClaudeMd \in DOMAIN fs
    /\ fs0[ClaudeMd] = <<"E">>
    /\ fs[ClaudeMd] = <<"A", "\n", "\n", "-", "-", "-", "\n", "\n", "B">>
    /\ ClaudeMd \in Reported("updated")

\* the step writes the merged JSON file of the section the apply phase is
\* at, directly or after a prompt answer
WritesMerged(sec) ==
    /\ pc \in {"apply", "prompt"}
    /\ pos.sec = sec
    /\ ReportsUnder("created") \/ ReportsUnder("updated")

\* the object the written file parses to
WrittenObject == from_str(fs'[CurTarget]).val

\* file i of the section is the last one that gives its entry name
LastWithName(sec, i) ==
    \A j \in (i + 1)..Len(preset[sec]) :
        EntryName(preset[sec][j], sec) # EntryName(preset[sec][i], sec)

\* settings file i is the last one that sets top-level key k
LastWithKey(i, k) ==
    \A j \in (i + 1)..Len(preset.settings) :
        k \notin DOMAIN from_str(preset.settings[j].content).val.m

\* C18: in the written output of a keyed-JSON merge the value under a key
\* is the parsed content of the last file that maps to this key: per
\* server name for mcp, per hook name for hooks, per top-level key for
\* settings
C18_LastFileWins ==
    [][/\ WritesMerged("mcp") =>
            \A i \in 1..Len(preset.mcp) :
                LastWithName("mcp", i) =>
                    /\ "mcpServers" \in DOMAIN WrittenObject.m
                    /\ EntryName(preset.mcp[i], "mcp") \in DOMAIN WrittenObject.m["mcpServers"].m
                    /\ WrittenObject.m["mcpServers"].m[EntryName(preset.mcp[i], "mcp")]
                           = from_str(preset.mcp[i].content).val
       /\ WritesMerged("hooks") =>
            \A i \in 1..Len(preset.hooks) :
                LastWithName("hooks", i) =>
                    /\ EntryName(preset.hooks[i], "hooks") \in DOMAIN WrittenObject.m
                    /\ WrittenObject.m[EntryName(preset.hooks[i], "hooks")]
                           = from_str(preset.hooks[i].content).val
       /\ WritesMerged("settings") =>
            \A i \in 1..Len(preset.settings) :
                \A k \in DOMAIN from_str(preset.settings[i].content).val.m :
                    LastWithKey(i, k) =>
                        /\ k \in DOMAIN WrittenObject.m
                        /\ WrittenObject.m[k] = from_str(preset.settings[i].content).val.m[k]]_vars

\* two mcp files with the same server name have been merged: the settings
\* file holds the content of the second
C18_Witness ==
    /\ Len(preset.mcp) = 2
    /\ EntryName(preset.mcp[1], "mcp") = EntryName(preset.mcp[2], "mcp")
    /\ preset.mcp[1].content # preset.mcp[2].content
    /\ SettingsFile \in Reported("created") \cup Reported("updated")
    /\ from_str(fs[SettingsFile]).val.m["mcpServers"].m["a"]
           = from_str(preset.mcp[2].content).val

\* C19: an apply phase that has run to its end had no mcp or hooks file
\* that is not valid JSON and no settings file that is not a valid JSON
\* object
C19_BadJsonFails ==
    ApplyEnded =>
        /\ \A sec \in {"mcp", "hooks"} :
               \A i \in 1..Len(preset[sec]) : from_str(preset[sec][i].content).ok
        /\ \A i \in 1..Len(preset.settings) :
               /\ from_str(preset.settings[i].content).ok
               /\ from_str(preset.settings[i].content).val.t = "obj"

\* C20: a failure in the apply phase ends the run: the step that fails
\* changes no file and no result list, and after it nothing of this run is
\* applied; the files written before keep their new content
C20_FailureStops ==
    [][/\ (pc \in {"apply", "prompt"} /\ pc' = "failed") =>
            /\ fs' = fs
            /\ result' = result
            /\ pos' = pos
       /\ pc = "failed" =>
            /\ run' = run + 1
            /\ fs' = fs
            /\ dirs' = dirs]_vars

\* the write of the second rules file has failed and the first rules file
\* is there as written
C20_Witness ==
    /\ pc = "failed"
    /\ pos = [sec |-> "rules", idx |-> 2]
    /\ result["Claude Code"]["created"] = <<OneToOneTarget("rules", preset.rules[1])>>
    /\ OneToOneTarget("rules", preset.rules[1]) \notin DOMAIN fs0
    /\ fs[OneToOneTarget("rules", preset.rules[1])] = preset.rules[1].content

MergedSections == {"memory", "mcp", "hooks", "settings"}

\* the destinations of the one-to-one sections of the preset
OneToOneTargets ==
    UNION {{OneToOneTarget(sec, preset[sec][i]) : i \in 1..Len(preset[sec])} :
           sec \in OneToOneSections}

\* C21: when the adapter's apply is at a merged section, no file of a
\* one-to-one section has been settled yet
C21_MergedFirst ==
    (pc \in {"apply", "prompt"} /\ pos.sec \in MergedSections) =>
        \A l \in {"created", "updated", "skipped", "unchanged"} :
            Range(result["Claude Code"][l]) \cap OneToOneTargets = {}

\* C22: every change of the scan that is identical is a conflict
C22_IdenticalIsConflict ==
    \A i \in 1..Len(all_changes) :
        all_changes[i].is_identical => all_changes[i].is_conflict

\* the scan has found an identical file, a new file, or a merged
\* destination that exists, all in one list with a root file's change
C22_Witness ==
    /\ \E i \in 1..Len(all_changes) :
           all_changes[i].is_identical /\ all_changes[i].section = "root"
    /\ \E i \in 1..Len(all_changes) :
           all_changes[i].section \in MergedSections /\ all_changes[i].is_conflict

\* C23: normalize_content applied to its own result gives that result
C23_NormalizeIdempotent ==
    ret.op = "normalize" => normalize_content(ret.val) = ret.val

\* a text with carriage returns, tabs and line feeds whose normalized form
\* is another text
C23_Witness ==
    /\ ret.op = "normalize"
    /\ args.x = <<"a", "\t", "\r", "\n">>
    /\ ret.val = <<"a">>

\* C24: two texts that differ only in white space at the end of lines, in
\* a line feed at the end, or in the line-ending convention (LF, CRLF or a
\* lone CR) compare as equal after normalize_content
C24_EquivalentTextsEqual ==
    ret.op = "compare" => ret.same

\* the same, without the lone carriage return
C24_WithoutLoneCR ==
    (ret.op = "compare" /\ args.opt # "cr") => ret.same

\* C25: strip_section_prefix of a section, "/" and a rest, for that
\* section, is the rest, also when the rest holds the section and "/"
C25_StripGivesRest ==
    ret.op = "strip" => ret.val = args.y

\* the same, for a rest that does not hold the section and "/"
C25_RestWithoutSection ==
    (ret.op = "strip" /\ RemoveAll(args.y, <<args.opt, "/">>) = args.y) =>
        ret.val = args.y

\* the settings file holds every server of the preset's mcp files under
\* mcpServers and every top-level key of the preset's settings files
SharedFileHoldsBoth ==
    /\ SettingsFile \in DOMAIN fs
    /\ LET obj == from_str(fs[SettingsFile]) IN
       /\ obj.ok
       /\ obj.val.t = "obj"
       /\ "mcpServers" \in DOMAIN obj.val.m
       /\ \A i \in 1..Len(preset.mcp) :
              EntryName(preset.mcp[i], "mcp") \in DOMAIN obj.val.m["mcpServers"].m
       /\ \A i \in 1..Len(preset.settings) :
              \A k \in DOMAIN from_str(preset.settings[i].content).val.m :
                  k \in DOMAIN obj.val.m

\* a Force apply of a preset with mcp and settings files has run to its end
ForcedBoth ==
    /\ ApplyEnded
    /\ conflict_mode = Force
    /\ preset.mcp # <<>>
    /\ preset.settings # <<>>

\* C26: after a Force apply of a preset with both an mcp and a settings
\* section the shared settings file holds every MCP entry under mcpServers
\* and every top-level key of the settings files, whatever the two merge
\* strategies are
C26_LaterKeepsEarlier ==
    ForcedBoth => SharedFileHoldsBoth

\* the same, for a settings section that accumulates
C26_SettingsConcat ==
    (ForcedBoth /\ preset.settings_strategy = "Concat") => SharedFileHoldsBoth

ResultLists == {"created", "updated", "skipped", "unchanged"}

\* the step is a return of write_with_conflict with Ok, directly or after
\* the answer to its prompt (apply_memory writes a missing file and a
\* concatenation without it)
WriteReturns ==
    /\ pc \in {"apply", "prompt"}
    /\ pos.sec \notin {"tool", "end", "none"}
    /\ ~(pos.sec = "memory" /\ (ClaudeMd \notin DOMAIN fs \/ preset.memory_strategy = "Concat"))
    /\ pos' # pos
    /\ pc' # "failed"

\* C27: after every write_with_conflict that returns Ok the path has been
\* appended to exactly one of created, updated, skipped and unchanged, and
\* the content of the target differs from before only if that list is
\* created or updated
C27_OneListPerWrite ==
    [][WriteReturns =>
        \E l \in ResultLists :
            /\ result'[Cur][l] = Append(result[Cur][l], CurTarget)
            /\ \A k \in ResultLists \ {l} : result'[Cur][k] = result[Cur][k]
            /\ \A t \in DOMAIN result \ {Cur} : result'[t] = result[t]
            /\ (CurTarget \notin DOMAIN fs \/ fs'[CurTarget] # fs[CurTarget]) =>
                   l \in {"created", "updated"}
            /\ \A q \in DOMAIN fs \ {CurTarget} : q \in DOMAIN fs' /\ fs'[q] = fs[q]]_vars

\* one write has created its file and another has skipped an existing
\* file, which has the content it had
C27_Witness ==
    /\ Reported("created") # {}
    /\ \E q \in Reported("skipped") :
           /\ q \notin Reported("created") \cup Reported("updated") \cup Reported("unchanged")
           /\ q \in DOMAIN fs0
           /\ fs[q] = fs0[q]

\* the fallback of the mode was unset when apply was called and has been
\* set by an overwrite-all or skip-all answer since
InlineFallback ==
    /\ mode.kind = "PreResolved"
    /\ conflict_mode.fallback_all = "None"
    /\ mode.fallback_all # "None"

\* C28: in mode PreResolved, once an inline overwrite-all or skip-all
\* answer has set the fallback, a later path with a recorded decision is
\* still resolved by that decision, and the fallback resolves only the
\* paths absent from decisions
C28_DecisionBeforeInlineFallback ==
    [][(ResolvingWrite /\ pc' # "failed" /\ InlineFallback) =>
           /\ pc' # "prompt"
           /\ mode' = mode
           /\ ReportsUnder("updated") =>
                  IF CurTarget \in DOMAIN mode.decisions
                  THEN mode.decisions[CurTarget]
                  ELSE mode.fallback_all = "SomeTrue"
           /\ ReportsUnder("skipped") =>
                  IF CurTarget \in DOMAIN mode.decisions
                  THEN ~mode.decisions[CurTarget]
                  ELSE mode.fallback_all = "SomeFalse"]_vars

\* the rules file had no decision and was overwritten by an overwrite-all
\* answer, which set the fallback; the hooks file, written later, has the
\* recorded decision to skip and was skipped
C28_Witness ==
    /\ InlineFallback
    /\ mode.fallback_all = "SomeTrue"
    /\ preset.rules # <<>>
    /\ OneToOneTarget("rules", preset.rules[1]) \notin DOMAIN mode.decisions
    /\ OneToOneTarget("rules", preset.rules[1]) \in Range(result["Claude Code"]["updated"])
    /\ HooksFile \in DOMAIN mode.decisions
    /\ ~mode.decisions[HooksFile]
    /\ HooksFile \in Range(result["Claude Code"]["skipped"])

\* the object the settings file holds before the step
ExistingObject == from_str(fs[SettingsFile]).val

\* the server names the preset's mcp files give
McpNames == {EntryName(preset.mcp[i], "mcp") : i \in 1..Len(preset.mcp)}

\* the top-level keys the preset's settings files give
SettingsKeys ==
    UNION {DOMAIN from_str(preset.settings[i].content).val.m : i \in 1..Len(preset.settings)}

\* the step writes the merged file of a section that accumulates into the
\* existing settings file
Accumulates(sec, strategy) ==
    /\ WritesMerged(sec)
    /\ strategy = "Concat"
    /\ SettingsFile \in DOMAIN fs

\* C29: a keyed-JSON merge that accumulates into an existing destination
\* keeps every entry it does not name: each top-level key and each entry
\* under the wrapper key that the existing file has and no preset file
\* gives has the same value in the output
C29_AccumulateKeepsOthers ==
    [][/\ Accumulates("mcp", preset.mcp_strategy) =>
            /\ \A k \in DOMAIN ExistingObject.m \ {"mcpServers"} :
                   /\ k \in DOMAIN WrittenObject.m
                   /\ WrittenObject.m[k] = ExistingObject.m[k]
            /\ "mcpServers" \in DOMAIN ExistingObject.m =>
                   \A e \in DOMAIN ExistingObject.m["mcpServers"].m \ McpNames :
                       /\ e \in DOMAIN WrittenObject.m["mcpServers"].m
                       /\ WrittenObject.m["mcpServers"].m[e]
                              = ExistingObject.m["mcpServers"].m[e]
       /\ Accumulates("settings", preset.settings_strategy) =>
            \A k \in DOMAIN ExistingObject.m \ SettingsKeys :
                /\ k \in DOMAIN WrittenObject.m
                /\ WrittenObject.m[k] = ExistingObject.m[k]]_vars

\* a server has been merged into a settings file that had another server:
\* the file holds both
C29_Witness ==
    /\ preset.mcp # <<>>
    /\ preset.mcp_strategy = "Concat"
    /\ preset.settings = <<>>
    /\ SettingsFile \in DOMAIN fs0
    /\ SettingsFile \in Reported("updated")
    /\ LET before == from_str(fs0[SettingsFile]).val
           after == from_str(fs[SettingsFile]).val
       IN /\ "mcpServers" \in DOMAIN before.m
          /\ "b" \in DOMAIN before.m["mcpServers"].m
          /\ "b" \notin McpNames
          /\ after.m["mcpServers"].m["b"] = before.m["mcpServers"].m["b"]
          /\ \A e \in McpNames : e \in DOMAIN after.m["mcpServers"].m

\* the front matter of a content that has one: the text between the
\* opening line and the closing line
FrontMatterOf(content) ==
    LET trimmed == TrimStart(content)
        after_opening == SubSeq(trimmed, 4, Len(trimmed))
    IN SubSeq(after_opening, 1, Find(after_opening, <<"\n">> \o Dashes))

\* a line of the content's front matter starts with the key and a colon
HasKeyLine(content, key) ==
    /\ has_frontmatter(content)
    /\ \E i \in 1..Len(Lines(FrontMatterOf(content))) :
           ConvertLine(Lines(FrontMatterOf(content))[i], key, <<>>)
               # Lines(FrontMatterOf(content))[i]

\* C30: convert_frontmatter_key returns the content as it is when it has no
\* front matter or no line of the front matter starts with from_key;
\* otherwise the result still has a well-formed front matter, with the
\* closing --- on a line of its own
C30_ConvertKeepsFrontMatter ==
    ret.op = "convert" =>
        /\ ~HasKeyLine(args.x, FromKey) => ret.val = args.x
        /\ has_frontmatter(args.x) => has_frontmatter(ret.val)

\* the same, for a content without front matter
C30_NoFrontMatter ==
    (ret.op = "convert" /\ ~has_frontmatter(args.x)) => ret.val = args.x

====
